---- MODULE Spec2Model ----
(***************************************************************************)
(* Model of package phonenumber (src/phonenumber.go): the normalizer       *)
(* (parseInternal), the classifiers (validate*ISO3166), the public parse   *)
(* operations, the reverse lookups and the lock-guarded pattern cache      *)
(* (getRegexpByCountryCode).                                               *)
(*                                                                         *)
(* A Go string is a sequence of one-character strings.  The country table  *)
(* (GetISO3166) lives outside phonenumber.go; the model carries a reduced  *)
(* table with the structural features the code depends on: a default first *)
(* record, shared calling codes, the alpha3 codes the code names           *)
(* literally (GAB, CIV, COG, RUS), an empty prefix list, an empty-string   *)
(* prefix, a prefix that starts with the calling code followed by 0, and   *)
(* a length list holding both L and L + len(countryCode).                  *)
(***************************************************************************)
EXTENDS Integers, Sequences, FiniteSets

VARIABLES
    number,     \* the number argument of the public operations
    country,    \* the country argument of the public operations
    op,         \* the last public operation that returned
    out,        \* what it returned
    rMap,       \* the pattern cache: key -> compiled matcher
    compiled,   \* history: how many times each key was compiled
    rLock,      \* holder of the exclusive lock (0 = free)
    pc,         \* per caller: position inside getRegexpByCountryCode
    key,        \* per caller: the countryCode argument
    ret         \* per caller: the matcher the last call returned

vars == <<number, country, op, out, rMap, compiled, rLock, pc, key, ret>>

(***************************************************************************)
(* Bounds of the model.                                                    *)
(***************************************************************************)
MaxHead == 3        \* free characters of a number argument
FillLen == 9        \* digits of the fixed tail that makes long numbers
MaxDigits == 4      \* free digits of a bare digit-string argument
NumCallers == 3     \* concurrent callers of getRegexpByCountryCode
MaxCompiles == 3    \* cap on the compile counter of one key

(***************************************************************************)
(* Strings.                                                                *)
(***************************************************************************)
Digit == {"0", "1", "2", "3", "4", "5", "6", "7", "8", "9"}

Range(s) == {s[i] : i \in 1..Len(s)}

\* strings.HasPrefix
HasPrefix(s, p) == Len(p) <= Len(s) /\ SubSeq(s, 1, Len(p)) = p

\* index of the first occurrence of old in s, 0 when there is none
Index(s, old) ==
    LET hits == {i \in 1..(Len(s) - Len(old) + 1) : SubSeq(s, i, i + Len(old) - 1) = old}
    IN  IF hits = {} THEN 0 ELSE CHOOSE i \in hits : \A j \in hits : i <= j

\* strings.Replace(s, old, "", 1)
ReplaceFirst(s, old) ==
    IF old = <<>> \/ Index(s, old) = 0 THEN s
    ELSE SubSeq(s, 1, Index(s, old) - 1) \o SubSeq(s, Index(s, old) + Len(old), Len(s))

\* strings.Replace(s, " ", "", -1)
RemoveSpaces(s) == SelectSeq(s, LAMBDA c : c # " ")

\* the number of leading characters of s equal to ch
LeadCount(s, ch) ==
    CHOOSE k \in 0..Len(s) :
        /\ \A i \in 1..k : s[i] = ch
        /\ (k = Len(s) \/ s[k + 1] # ch)

Lower == <<"a", "b", "c", "d", "e", "f", "g", "h", "i", "j", "k", "l", "m",
           "n", "o", "p", "q", "r", "s", "t", "u", "v", "w", "x", "y", "z">>
Upper == <<"A", "B", "C", "D", "E", "F", "G", "H", "I", "J", "K", "L", "M",
           "N", "O", "P", "Q", "R", "S", "T", "U", "V", "W", "X", "Y", "Z">>

\* the upper-case letter of each lower-case letter
UpperOf == [c \in Range(Lower) |-> Upper[CHOOSE j \in 1..26 : Lower[j] = c]]

\* strings.ToUpper
ToUpper(s) == [i \in 1..Len(s) |-> IF s[i] \in DOMAIN UpperOf THEN UpperOf[s[i]] ELSE s[i]]

(***************************************************************************)
(* The regular expressions of the var block.                               *)
(***************************************************************************)
\* digitsOnlyRegexp.ReplaceAllString(s, ""): `\D` removed everywhere
digitsOnlyRegexp(s) == SelectSeq(s, LAMBDA c : c \in Digit)

\* leadZeroRegexp.ReplaceAllString(s, ""): `^0+` removed
leadZeroRegexp(s) == SubSeq(s, LeadCount(s, "0") + 1, Len(s))

\* rusLocalePrefixRegexp.ReplaceAllString(s, ""): `^8+` removed
rusLocalePrefixRegexp(s) == SubSeq(s, LeadCount(s, "8") + 1, Len(s))

\* rusLocaleMobPrefixRegexp.MatchString(s): `^89`
rusLocaleMobPrefixRegexp(s) == HasPrefix(s, <<"8", "9">>)

\* regexp.MustCompile(`^` + countryCode): the keys are digit strings, so the
\* pattern is the literal prefix
MatchString(prefix, s) == HasPrefix(s, prefix)

\* (`^` + countryCode).ReplaceAllString(s, ""): the anchored prefix removed once
ReplaceAllString(prefix, s) ==
    IF HasPrefix(s, prefix) THEN SubSeq(s, Len(prefix) + 1, Len(s)) ELSE s

(***************************************************************************)
(* The country table.                                                      *)
(***************************************************************************)
ISO(a2, a3, cc, name, mob, lens) ==
    [Alpha2 |-> a2, Alpha3 |-> a3, CountryCode |-> cc, CountryName |-> name,
     MobileBeginWith |-> mob, PhoneNumberLengths |-> lens]

\* ISO3166{}
ZeroISO == ISO(<<>>, <<>>, <<>>, <<>>, <<>>, <<>>)

GetISO3166 ==
    << ISO(<<"U","S">>, <<"U","S","A">>, <<"8">>,
           <<"U","n","i","t","e","d"," ","S","t","a","t","e","s">>,
           << <<"7">>, <<"9">> >>, <<2>>),
       ISO(<<"C","A">>, <<"C","A","N">>, <<"8">>,
           <<"C","a","n","a","d","a">>,
           << <<"0">>, <<"9">> >>, <<2>>),
       ISO(<<"R","U">>, <<"R","U","S">>, <<"7">>,
           <<"R","u","s","s","i","a">>,
           << <<"9">> >>, <<10>>),
       ISO(<<"K","Z">>, <<"K","A","Z">>, <<"7">>,
           <<"K","a","z","a","k","h","s","t","a","n">>,
           << <<"7","0">>, <<"7","7">> >>, <<2>>),
       ISO(<<"C","G">>, <<"C","O","G">>, <<"9","0">>,
           <<"C","o","n","g","o">>,
           << <<"0">> >>, <<2>>),
       ISO(<<"A","T">>, <<"A","U","T">>, <<"9","7">>,
           <<"A","u","s","t","r","i","a">>,
           << <<"7">> >>, <<2, 4>>),
       ISO(<<"C","I">>, <<"C","I","V">>, <<"9","8">>,
           <<"I","v","o","r","y"," ","C","o","a","s","t">>,
           << <<>> >>, <<2>>),
       ISO(<<"G","A">>, <<"G","A","B">>, <<"9","9">>,
           <<"G","a","b","o","n">>,
           << >>, <<2>>) >>

(***************************************************************************)
(* indexOfString, indexOfInt: 0-based index of the first equal element,    *)
(* -1 when there is none.                                                  *)
(***************************************************************************)
indexOfString(word, data) ==
    LET hits == {k \in 1..Len(data) : data[k] = word}
    IN  IF hits = {} THEN -1 ELSE (CHOOSE k \in hits : \A j \in hits : k <= j) - 1

indexOfInt(word, data) ==
    LET hits == {k \in 1..Len(data) : data[k] = word}
    IN  IF hits = {} THEN -1 ELSE (CHOOSE k \in hits : \A j \in hits : k <= j) - 1

(***************************************************************************)
(* getISO3166ByCountry                                                     *)
(***************************************************************************)
\* for _, i := range GetISO3166() { if ... { iso3166 = i; break } }: the first
\* of the records whose indices are in hits, the zero record when there is none
FirstRecord(hits) ==
    IF hits = {} THEN ZeroISO
    ELSE GetISO3166[CHOOSE k \in hits : \A j \in hits : k <= j]

getISO3166ByCountry(c) ==
    LET uppperCaseCountry == ToUpper(c)
        records == 1..Len(GetISO3166)
    IN  CASE Len(c) = 0 -> GetISO3166[1]
          [] Len(c) = 2 ->
                FirstRecord({k \in records : GetISO3166[k].Alpha2 = uppperCaseCountry})
          [] Len(c) = 3 ->
                FirstRecord({k \in records : GetISO3166[k].Alpha3 = uppperCaseCountry})
          [] OTHER ->
                FirstRecord({k \in records :
                                ToUpper(GetISO3166[k].CountryName) = uppperCaseCountry})

(***************************************************************************)
(* parseInternal, step by step.                                            *)
(***************************************************************************)
\* the slip "the check for a missing country is forgotten"
missingCountryNever(n, c) == FALSE

\* lines 94-98: international form without a country (spaces already removed)
missingCountry(n, c) == HasPrefix(n, <<"+">>) /\ c = <<>>

\* lines 106-112: country code, then one zero, taken off and the code put back
stripTrunkZero(n, cc) ==
    IF HasPrefix(n, cc)
    THEN LET withoutCountryCode == ReplaceFirst(n, cc)
         IN  cc \o (IF HasPrefix(withoutCountryCode, <<"0">>)
                    THEN ReplaceFirst(withoutCountryCode, <<"0">>)
                    ELSE withoutCountryCode)
    ELSE n

\* the slip "leading zeros are never removed"
stripLeadZeroNever(n, alpha3) == n

\* lines 114-116
stripLeadZero(n, alpha3) ==
    IF indexOfString(alpha3, << <<"G","A","B">>, <<"C","I","V">>, <<"C","O","G">> >>) = -1
    THEN leadZeroRegexp(n)
    ELSE n

\* lines 118-120
rusLocale(n, alpha3) ==
    IF alpha3 = <<"R","U","S">> /\ Len(n) = 11 /\ rusLocaleMobPrefixRegexp(n)
    THEN rusLocalePrefixRegexp(n)
    ELSE n

\* lines 121-123
attachCountryCode(n, iso) ==
    IF indexOfInt(Len(n), iso.PhoneNumberLengths) # -1
    THEN iso.CountryCode \o n
    ELSE n

parseInternal(n0, c0) ==
    LET n1 == RemoveSpaces(n0)
        c1 == RemoveSpaces(c0)
        iso3166 == getISO3166ByCountry(c1)
        n2 == digitsOnlyRegexp(n1)
        n3 == stripTrunkZero(n2, iso3166.CountryCode)
        n4 == stripLeadZero(n3, iso3166.Alpha3)
        n5 == rusLocale(n4, iso3166.Alpha3)
    IN  IF missingCountry(n1, c1)
        THEN [number |-> <<>>, iso |-> ZeroISO]
        ELSE [number |-> attachCountryCode(n5, iso3166), iso |-> iso3166]

(***************************************************************************)
(* The classifiers.                                                        *)
(***************************************************************************)
\* the slip "the national length is not checked"
validateMobileNoLength(n, iso) ==
    /\ Len(iso.PhoneNumberLengths) # 0
    /\ \E w \in Range(iso.MobileBeginWith) :
           MatchString(w, ReplaceAllString(iso.CountryCode, n))

validateMobileISO3166(n, iso) ==
    /\ Len(iso.PhoneNumberLengths) # 0
    /\ LET national == ReplaceAllString(iso.CountryCode, n)
       IN  \E l \in Range(iso.PhoneNumberLengths) :
               /\ l = Len(national)
               /\ \E w \in Range(iso.MobileBeginWith) : MatchString(w, national)

\* the slip "the country code is left out of the total length"
validateLandlineNoCode(n, iso) ==
    /\ Len(iso.PhoneNumberLengths) # 0
    /\ \E l \in Range(iso.PhoneNumberLengths) :
           MatchString(iso.CountryCode, n) /\ Len(n) = l

validateLandlineISO3166(n, iso) ==
    /\ Len(iso.PhoneNumberLengths) # 0
    /\ \E l \in Range(iso.PhoneNumberLengths) :
           MatchString(iso.CountryCode, n) /\ Len(n) = Len(iso.CountryCode) + l

validatePhoneISO3166(n, iso) ==
    IF ~validateLandlineISO3166(n, iso)
    THEN [valid |-> FALSE, mobile |-> FALSE]
    ELSE [valid |-> TRUE, mobile |-> validateMobileISO3166(n, iso)]

(***************************************************************************)
(* The keys each classifier asks getRegexpByCountryCode for.               *)
(***************************************************************************)
\* the prefixes tried by `for _, w := range ws`, up to the first that matches
TriedPrefixes(ws, pre, s) ==
    LET hits == {k \in 1..Len(ws) : MatchString(pre \o ws[k], s)}
        last == IF hits = {} THEN Len(ws) ELSE CHOOSE k \in hits : \A j \in hits : k <= j
    IN  {pre \o ws[k] : k \in 1..last}

validateMobileKeys(n, iso) ==
    IF Len(iso.PhoneNumberLengths) = 0 THEN {}
    ELSE LET national == ReplaceAllString(iso.CountryCode, n)
         IN  {iso.CountryCode} \cup
             (IF \E l \in Range(iso.PhoneNumberLengths) : l = Len(national)
              THEN TriedPrefixes(iso.MobileBeginWith, <<>>, national)
              ELSE {})

validateLandlineKeys(n, iso) ==
    IF Len(iso.PhoneNumberLengths) = 0 THEN {} ELSE {iso.CountryCode}

validatePhoneKeys(n, iso) ==
    validateLandlineKeys(n, iso) \cup
    (IF validateLandlineISO3166(n, iso) THEN validateMobileKeys(n, iso) ELSE {})

(***************************************************************************)
(* The pattern cache as the sequential operations see it.                  *)
(***************************************************************************)
\* regexp.MustCompile(`^` + countryCode), the n-th compilation of this key
Compile(k, n) == [prefix |-> k, gen |-> n]

Count(c, k) == IF k \in DOMAIN c THEN c[k] ELSE 0

\* rMap after getRegexpByCountryCode ran to completion for every key of ks
CacheAfter(cache, counts, ks) ==
    [k \in DOMAIN cache \cup ks |->
        IF k \in DOMAIN cache THEN cache[k] ELSE Compile(k, Count(counts, k) + 1)]

CountsAfter(cache, counts, ks) ==
    [k \in DOMAIN counts \cup (ks \ DOMAIN cache) |->
        IF k \in ks \ DOMAIN cache THEN Count(counts, k) + 1 ELSE counts[k]]

(***************************************************************************)
(* The public parse operations.                                            *)
(***************************************************************************)
Parse(n, c) ==
    LET p == parseInternal(n, c)
    IN  IF validateMobileISO3166(p.number, p.iso) THEN p.number ELSE <<>>

ParseWithLandLine(n, c) ==
    LET p == parseInternal(n, c)
    IN  IF validateLandlineISO3166(p.number, p.iso) THEN p.number ELSE <<>>

\* the slip "parsed is not cleared"
ParseWithFlagsKeepsParsed(n, c) ==
    LET p == parseInternal(n, c)
        f == validatePhoneISO3166(p.number, p.iso)
    IN  [parsed |-> p.number, valid |-> f.valid, mobile |-> f.mobile]

ParseWithFlags(n, c) ==
    LET p == parseInternal(n, c)
        f == validatePhoneISO3166(p.number, p.iso)
    IN  [parsed |-> IF ~f.valid THEN <<>> ELSE p.number,
         valid |-> f.valid, mobile |-> f.mobile]

(***************************************************************************)
(* GetISO3166ByNumber                                                      *)
(***************************************************************************)
RECURSIVE lengthsLoop(_, _, _, _)
\* `for _, l := range i.PhoneNumberLengths` from the j-th length on:
\* returned = the function returned i, assigned = `iso3166 = i; break` ran
lengthsLoop(n, withLandLine, i, j) ==
    IF j > Len(i.PhoneNumberLengths)
    THEN [returned |-> FALSE, assigned |-> FALSE, keys |-> {}]
    ELSE IF MatchString(i.CountryCode, n)
            /\ Len(n) = Len(i.CountryCode) + i.PhoneNumberLengths[j]
         THEN LET tried == TriedPrefixes(i.MobileBeginWith, i.CountryCode, n)
              IN  IF \E w \in Range(i.MobileBeginWith) : MatchString(i.CountryCode \o w, n)
                  THEN [returned |-> TRUE, assigned |-> FALSE, keys |-> tried]
                  ELSE IF withLandLine
                       THEN [returned |-> FALSE, assigned |-> TRUE, keys |-> tried]
                       ELSE LET rest == lengthsLoop(n, withLandLine, i, j + 1)
                            IN  [rest EXCEPT !.keys = @ \cup tried]
         ELSE lengthsLoop(n, withLandLine, i, j + 1)

\* the slip "the first landline candidate is kept"
keepCandidateFirst(cand, i, assigned) ==
    IF assigned /\ cand = ZeroISO THEN i ELSE cand

\* `iso3166 = i`: the candidate after country i was scanned
keepCandidate(cand, i, assigned) == IF assigned THEN i ELSE cand

RECURSIVE countriesLoop(_, _, _, _, _)
\* `for _, i := range GetISO3166()` from the k-th record on
countriesLoop(n, withLandLine, k, cand, keys) ==
    IF k > Len(GetISO3166)
    THEN [iso |-> cand, keys |-> keys]
    ELSE LET i == GetISO3166[k]
             r == lengthsLoop(n, withLandLine, i, 1)
             seen == keys \cup {i.CountryCode} \cup r.keys
         IN  IF r.returned
             THEN [iso |-> i, keys |-> seen]
             ELSE countriesLoop(n, withLandLine, k + 1,
                                keepCandidate(cand, i, r.assigned), seen)

GetISO3166ByNumber(n, withLandLine) == countriesLoop(n, withLandLine, 1, ZeroISO, {})

(***************************************************************************)
(* GetISO3166ByMobileNumber                                                *)
(***************************************************************************)
\* how many times record i is appended
Appends(n, i) ==
    Cardinality({jm \in (1..Len(i.PhoneNumberLengths)) \X (1..Len(i.MobileBeginWith)) :
        /\ Len(n) = i.PhoneNumberLengths[jm[1]]
        /\ i.MobileBeginWith[jm[2]] # <<>>
        /\ HasPrefix(n, i.MobileBeginWith[jm[2]])})

RECURSIVE mobileLoop(_, _)
mobileLoop(n, k) ==
    IF k > Len(GetISO3166) THEN <<>>
    ELSE [x \in 1..Appends(n, GetISO3166[k]) |-> GetISO3166[k]] \o mobileLoop(n, k + 1)

GetISO3166ByMobileNumber(n) == mobileLoop(n, 1)

(***************************************************************************)
(* Arguments.                                                              *)
(***************************************************************************)
NumberAlphabet == {"+", " ", "0", "7", "8", "9"}
DigitAlphabet == {"0", "7", "8", "9"}

Strings(alphabet, max) ==
    UNION {{[i \in 1..n |-> f[i]] \o <<>> : f \in [1..n -> alphabet]} : n \in 0..max}

Fill == [i \in 1..FillLen |-> "9"]

\* short numbers, and the same followed by the fixed tail
Numbers == {h \o t : h \in Strings(NumberAlphabet, MaxHead), t \in {<<>>, Fill}}

DigitStrings == {h \o t : h \in Strings(DigitAlphabet, MaxDigits), t \in {<<>>, Fill}}

Countries ==
    { <<>>, <<" ">>,
      <<"u","s">>, <<"U","S","A">>,
      <<"U","n","i","t","e","d"," ","S","t","a","t","e","s">>,
      <<"C","A">>, <<" ","r","u">>, <<"K","Z">>, <<"C","O","G">>,
      <<"A","T">>, <<"a","u","s","t","r","i","A">>,
      <<"C","I">>, <<"G","A","B">>, <<"X","X">> }

Callers == 1..NumCallers

\* the keys the concurrent callers ask for
CacheKeys == {<<"7">>, <<"8">>, <<"7","9">>}

(***************************************************************************)
(* State.                                                                  *)
(***************************************************************************)
NoMatcher == [prefix |-> <<>>, gen |-> 0]

NoOut == [parsed |-> <<>>, valid |-> FALSE, mobile |-> FALSE,
          iso |-> ZeroISO, list |-> <<>>]

EmptyMap == [k \in {} |-> k]

CacheIdle ==
    /\ rLock = 0
    /\ pc = [p \in Callers |-> "idle"]
    /\ key = [p \in Callers |-> <<>>]
    /\ ret = [p \in Callers |-> NoMatcher]

Init ==
    /\ number \in Numbers
    /\ country \in Countries
    /\ op = "none"
    /\ out = NoOut
    /\ rMap = EmptyMap
    /\ compiled = EmptyMap
    /\ CacheIdle

\* a sequential operation returned after asking the cache for the keys ks
Returns(name, ks) ==
    /\ op' = name
    /\ rMap' = CacheAfter(rMap, compiled, ks)
    /\ compiled' = CountsAfter(rMap, compiled, ks)
    /\ UNCHANGED <<number, country, rLock, pc, key, ret>>

CallParse ==
    /\ out' = [NoOut EXCEPT !.parsed = Parse(number, country)]
    /\ Returns("Parse",
               validateMobileKeys(parseInternal(number, country).number,
                                  parseInternal(number, country).iso))

CallParseWithLandLine ==
    /\ out' = [NoOut EXCEPT !.parsed = ParseWithLandLine(number, country)]
    /\ Returns("ParseWithLandLine",
               validateLandlineKeys(parseInternal(number, country).number,
                                    parseInternal(number, country).iso))

CallParseWithFlags ==
    /\ out' = [NoOut EXCEPT !.parsed = ParseWithFlags(number, country).parsed,
                            !.valid = ParseWithFlags(number, country).valid,
                            !.mobile = ParseWithFlags(number, country).mobile]
    /\ Returns("ParseWithFlags",
               validatePhoneKeys(parseInternal(number, country).number,
                                 parseInternal(number, country).iso))

Next == CallParse \/ CallParseWithLandLine \/ CallParseWithFlags

Spec == Init /\ [][Next]_vars

(***************************************************************************)
(* The operations that take a bare number.                                 *)
(***************************************************************************)
InitDigits ==
    /\ number \in DigitStrings
    /\ country = <<>>
    /\ op = "none"
    /\ out = NoOut
    /\ rMap = EmptyMap
    /\ compiled = EmptyMap
    /\ CacheIdle

CallGetISO3166ByNumber(withLandLine) ==
    /\ out' = [NoOut EXCEPT !.iso = GetISO3166ByNumber(number, withLandLine).iso,
                            !.valid = withLandLine]
    /\ Returns("GetISO3166ByNumber", GetISO3166ByNumber(number, withLandLine).keys)

CallGetISO3166ByMobileNumber ==
    /\ out' = [NoOut EXCEPT !.list = GetISO3166ByMobileNumber(number)]
    /\ Returns("GetISO3166ByMobileNumber", {})

NextDigits ==
    \/ \E withLandLine \in BOOLEAN : CallGetISO3166ByNumber(withLandLine)
    \/ CallGetISO3166ByMobileNumber

SpecDigits == InitDigits /\ [][NextDigits]_vars

(***************************************************************************)
(* The classifier on its own: a record and a digit string, with and        *)
(* without the record's country code in front.                             *)
(***************************************************************************)
Alpha2s == {GetISO3166[k].Alpha2 : k \in 1..Len(GetISO3166)}

InitClassify ==
    /\ country \in Alpha2s
    /\ \E body \in DigitStrings :
           number \in {body, getISO3166ByCountry(country).CountryCode \o body}
    /\ op = "none"
    /\ out = NoOut
    /\ rMap = EmptyMap
    /\ compiled = EmptyMap
    /\ CacheIdle

CallValidatePhone ==
    /\ out' = [NoOut EXCEPT
                 !.iso = getISO3166ByCountry(country),
                 !.valid = validatePhoneISO3166(number, getISO3166ByCountry(country)).valid,
                 !.mobile = validatePhoneISO3166(number, getISO3166ByCountry(country)).mobile]
    /\ Returns("validatePhoneISO3166",
               validatePhoneKeys(number, getISO3166ByCountry(country)))

CallValidateMobile ==
    /\ out' = [NoOut EXCEPT
                 !.iso = getISO3166ByCountry(country),
                 !.mobile = validateMobileISO3166(number, getISO3166ByCountry(country))]
    /\ Returns("validateMobileISO3166",
               validateMobileKeys(number, getISO3166ByCountry(country)))

NextClassify == CallValidatePhone \/ CallValidateMobile

SpecClassify == InitClassify /\ [][NextClassify]_vars

(***************************************************************************)
(* getRegexpByCountryCode under concurrent callers.                        *)
(***************************************************************************)
InitCache ==
    /\ number = <<>>
    /\ country = <<>>
    /\ op = "none"
    /\ out = NoOut
    /\ rMap = EmptyMap
    /\ compiled = EmptyMap
    /\ CacheIdle

\* a caller enters getRegexpByCountryCode(k)
Call(p, k) ==
    /\ pc[p] = "idle"
    /\ pc' = [pc EXCEPT ![p] = "lock"]
    /\ key' = [key EXCEPT ![p] = k]
    /\ ret' = [ret EXCEPT ![p] = NoMatcher]
    /\ UNCHANGED <<number, country, op, out, rMap, compiled, rLock>>

\* the slip "the lock does not exclude"
LockNoExclusion(p) ==
    /\ pc[p] = "lock"
    /\ rLock' = p
    /\ pc' = [pc EXCEPT ![p] = "check"]
    /\ UNCHANGED <<number, country, op, out, rMap, compiled, key, ret>>

\* rLock.Lock()
Lock(p) ==
    /\ pc[p] = "lock"
    /\ rLock = 0
    /\ rLock' = p
    /\ pc' = [pc EXCEPT ![p] = "check"]
    /\ UNCHANGED <<number, country, op, out, rMap, compiled, key, ret>>

\* regex, exists := rMap[countryCode]; if exists { return regex }
Check(p) ==
    /\ pc[p] = "check"
    /\ IF key[p] \in DOMAIN rMap
       THEN /\ ret' = [ret EXCEPT ![p] = rMap[key[p]]]
            /\ pc' = [pc EXCEPT ![p] = "unlock"]
       ELSE /\ pc' = [pc EXCEPT ![p] = "store"]
            /\ UNCHANGED ret
    /\ UNCHANGED <<number, country, op, out, rMap, compiled, rLock, key>>

\* rMap[countryCode] = regexp.MustCompile(`^` + countryCode)
Store(p) ==
    /\ pc[p] = "store"
    /\ Count(compiled, key[p]) < MaxCompiles
    /\ rMap' = [k \in DOMAIN rMap \cup {key[p]} |->
                   IF k = key[p] THEN Compile(k, Count(compiled, k) + 1) ELSE rMap[k]]
    /\ compiled' = [k \in DOMAIN compiled \cup {key[p]} |->
                       IF k = key[p] THEN Count(compiled, k) + 1 ELSE compiled[k]]
    /\ pc' = [pc EXCEPT ![p] = "load"]
    /\ UNCHANGED <<number, country, op, out, rLock, key, ret>>

\* return rMap[countryCode]
Load(p) ==
    /\ pc[p] = "load"
    /\ ret' = [ret EXCEPT ![p] = rMap[key[p]]]
    /\ pc' = [pc EXCEPT ![p] = "unlock"]
    /\ UNCHANGED <<number, country, op, out, rMap, compiled, rLock, key>>

\* defer rLock.Unlock()
Unlock(p) ==
    /\ pc[p] = "unlock"
    /\ rLock' = 0
    /\ pc' = [pc EXCEPT ![p] = "idle"]
    /\ UNCHANGED <<number, country, op, out, rMap, compiled, key, ret>>

NextCache ==
    \E p \in Callers :
        \/ \E k \in CacheKeys : Call(p, k)
        \/ Lock(p)
        \/ Check(p)
        \/ Store(p)
        \/ Load(p)
        \/ Unlock(p)

\* a caller inside the function keeps running; a caller waiting for the lock
\* gets it (sync.RWMutex hands the lock to a starving waiter)
FairCache ==
    \A p \in Callers :
        /\ WF_vars(Check(p) \/ Store(p) \/ Load(p) \/ Unlock(p))
        /\ SF_vars(Lock(p))

SpecCache == InitCache /\ [][NextCache]_vars /\ FairCache

(***************************************************************************)
(* Properties.                                                             *)
(***************************************************************************)
\* the record the country argument resolves to
Resolved == getISO3166ByCountry(RemoveSpaces(country))

ExceptionSet == {<<"G","A","B">>, <<"C","I","V">>, <<"C","O","G">>}

\* the number argument is "0" followed by a digit string of an accepted length
TrunkZeroInput ==
    /\ op = "Parse"
    /\ Resolved # ZeroISO
    /\ HasPrefix(number, <<"0">>)
    /\ Range(number) \subseteq Digit
    /\ \E l \in Range(Resolved.PhoneNumberLengths) : Len(number) = l + 1

\* C1: every non-empty result of Parse is a digit string made of the resolved
\* record's country code followed by a national number whose length is one of
\* the record's lengths and which starts with one of its mobile prefixes.
C1_ParseCanonical ==
    (op = "Parse" /\ out.parsed # <<>>) =>
        LET cc == Resolved.CountryCode
            national == SubSeq(out.parsed, Len(cc) + 1, Len(out.parsed))
        IN  /\ Range(out.parsed) \subseteq Digit
            /\ out.parsed = cc \o national
            /\ \E l \in Range(Resolved.PhoneNumberLengths) : Len(national) = l
            /\ \E w \in Range(Resolved.MobileBeginWith) : HasPrefix(national, w)

\* Parse accepted a number written with non-digit characters and attached the
\* country code to it
C1_Witness ==
    /\ op = "Parse"
    /\ out.parsed # <<>>
    /\ ~(Range(number) \subseteq Digit)
    /\ out.parsed # digitsOnlyRegexp(number)

\* C2: normalizing a non-empty result of Parse again, with the same country,
\* gives that result back.
C2_Idempotent ==
    (op = "Parse" /\ out.parsed # <<>>) =>
        parseInternal(out.parsed, country).number = out.parsed

\* C3 as stated: for every country of the table and every digit string n of an
\* accepted length, Parse("0" + n, c) = Parse(n, c).
C3_TrunkZeroAllCountries ==
    TrunkZeroInput => out.parsed = Parse(Tail(number), country)

\* C3 amended: the same for the countries outside the leading-zero exception
\* set and the digit strings n that do not start with the country code
\* followed by 0.
C3_TrunkZero ==
    (/\ TrunkZeroInput
     /\ Resolved.Alpha3 \notin ExceptionSet
     /\ ~HasPrefix(Tail(number), Resolved.CountryCode \o <<"0">>))
        => out.parsed = Parse(Tail(number), country)

\* a trunk zero in front of an accepted mobile number was taken off
C3_Witness ==
    /\ TrunkZeroInput
    /\ Resolved.Alpha3 \notin ExceptionSet
    /\ ~HasPrefix(Tail(number), Resolved.CountryCode \o <<"0">>)
    /\ out.parsed # <<>>

\* C4: ParseWithFlags never returns valid = false with a non-empty string or
\* with mobile = true.
C4_InvalidIsEmpty ==
    (op = "ParseWithFlags" /\ ~out.valid) => (out.parsed = <<>> /\ ~out.mobile)

\* the normalizer produced digits, the classifier rejected them
C4_Witness ==
    /\ op = "ParseWithFlags"
    /\ ~out.valid
    /\ parseInternal(number, country).number # <<>>

\* C5: a country argument that is a record's countryName up to case, of a
\* length other than 0, 2 and 3, gives the result the record's alpha2 gives.
C5_NameResolves ==
    \A k \in 1..Len(GetISO3166) :
        (/\ op = "Parse"
         /\ Len(country) \notin {0, 2, 3}
         /\ ToUpper(country) = ToUpper(GetISO3166[k].CountryName))
            => out.parsed = Parse(number, GetISO3166[k].Alpha2)

\* C6: a number that starts with "+" once its spaces are removed, with a
\* country that is empty once its spaces are removed, is rejected by all three
\* parse operations.
C6_PlusNeedsCountry ==
    (/\ HasPrefix(RemoveSpaces(number), <<"+">>)
     /\ RemoveSpaces(country) = <<>>
     /\ op \in {"Parse", "ParseWithLandLine", "ParseWithFlags"})
        => (out.parsed = <<>> /\ ~out.valid /\ ~out.mobile)

\* rejected although the default country accepts the same digits
C6_Witness ==
    /\ HasPrefix(RemoveSpaces(number), <<"+">>)
    /\ RemoveSpaces(country) = <<>>
    /\ country # <<>>
    /\ op = "ParseWithFlags"
    /\ out.parsed = <<>>
    /\ Parse(digitsOnlyRegexp(number), <<>>) # <<>>

\* record i passes the country-code-and-total-length check for n
LandlineMatch(i, n) ==
    /\ HasPrefix(n, i.CountryCode)
    /\ \E l \in Range(i.PhoneNumberLengths) : Len(n) = Len(i.CountryCode) + l

\* record i passes that check and n starts with countryCode + a mobile prefix
MobileMatch(i, n) ==
    /\ LandlineMatch(i, n)
    /\ \E w \in Range(i.MobileBeginWith) : HasPrefix(n, i.CountryCode \o w)

LandlineMatches == {k \in 1..Len(GetISO3166) : LandlineMatch(GetISO3166[k], number)}
MobileMatches == {k \in 1..Len(GetISO3166) : MobileMatch(GetISO3166[k], number)}
Min(S) == CHOOSE k \in S : \A j \in S : k <= j
Max(S) == CHOOSE k \in S : \A j \in S : k >= j

\* C7: GetISO3166ByNumber returns the first record in table order that matches
\* on a mobile prefix; when there is none it returns, with withLandLine, the
\* last record that passes the landline check, and without it the zero record.
C7_ByNumberRule ==
    op = "GetISO3166ByNumber" =>
        IF MobileMatches # {}
        THEN out.iso = GetISO3166[Min(MobileMatches)]
        ELSE IF LandlineMatches # {} /\ out.valid
             THEN out.iso = GetISO3166[Max(LandlineMatches)]
             ELSE out.iso = ZeroISO

\* two records pass the landline check, none the mobile check, and the later
\* one came back
C7_Witness ==
    /\ op = "GetISO3166ByNumber"
    /\ out.valid
    /\ MobileMatches = {}
    /\ Cardinality(LandlineMatches) >= 2
    /\ out.iso = GetISO3166[Max(LandlineMatches)]

\* the first mobile prefix of record i that fits in l digits
FirstPrefixWithin(i, l) ==
    i.MobileBeginWith[Min({k \in 1..Len(i.MobileBeginWith) : Len(i.MobileBeginWith[k]) <= l})]

\* n is countryCode + that prefix + digits, l national digits in all
Synthetic(n, i) ==
    /\ Range(n) \subseteq Digit
    /\ \E l \in Range(i.PhoneNumberLengths) :
           /\ \E k \in 1..Len(i.MobileBeginWith) : Len(i.MobileBeginWith[k]) <= l
           /\ HasPrefix(n, i.CountryCode \o FirstPrefixWithin(i, l))
           /\ Len(n) = Len(i.CountryCode) + l

\* C9: a synthetic mobile number of a record classifies as valid and mobile
\* against that record.
C9_SyntheticIsMobile ==
    (op = "validatePhoneISO3166" /\ Synthetic(number, out.iso))
        => (out.valid /\ out.mobile)

\* a synthetic number with padding after the prefix, of a record with two lengths
C9_Witness ==
    /\ op = "validatePhoneISO3166"
    /\ Synthetic(number, out.iso)
    /\ Len(out.iso.PhoneNumberLengths) = 2
    /\ Len(number) = Len(out.iso.CountryCode) + 4
    /\ out.mobile

\* C10: a non-empty result of Parse is also the result of ParseWithLandLine
\* and, with valid and mobile set, of ParseWithFlags; and ParseWithLandLine
\* returns the string ParseWithFlags returns.
C10_MobileWithinLandline ==
    /\ (op = "Parse" /\ out.parsed # <<>>) =>
           /\ ParseWithLandLine(number, country) = out.parsed
           /\ ParseWithFlags(number, country) =
                  [parsed |-> out.parsed, valid |-> TRUE, mobile |-> TRUE]
    /\ op = "ParseWithLandLine" => out.parsed = ParseWithFlags(number, country).parsed

\* ParseWithLandLine accepted a number Parse rejects
C10_Witness ==
    /\ op = "ParseWithLandLine"
    /\ out.parsed # <<>>
    /\ Parse(number, country) = <<>>
    /\ ~ParseWithFlags(number, country).mobile

\* each key is compiled at most once
CompiledOnce == \A k \in DOMAIN compiled : compiled[k] <= 1

\* check, insert and return run with the lock held
UnderLock ==
    \A p \in Callers : pc[p] \in {"check", "store", "load", "unlock"} => rLock = p

\* callers that returned with the same key hold the same stored matcher
SameMatcher ==
    \A p, q \in Callers :
        (pc[p] = "idle" /\ pc[q] = "idle" /\ ret[p] # NoMatcher /\ ret[q] # NoMatcher
         /\ key[p] = key[q])
            => (ret[p] = ret[q] /\ key[p] \in DOMAIN rMap /\ ret[p] = rMap[key[p]])

\* a stored entry is never replaced or removed
AppendOnly ==
    [][\A k \in DOMAIN rMap : k \in DOMAIN rMap' /\ rMap'[k] = rMap[k]]_vars

\* every call gets the lock, returns and releases it
EveryCallReturns == \A p \in Callers : (pc[p] # "idle") ~> (pc[p] = "idle" /\ rLock # p)

\* C8: under every interleaving of concurrent getRegexpByCountryCode calls the
\* check-then-insert runs under the lock, each key is compiled and stored at
\* most once, stored entries are never replaced or removed, callers with the
\* same key get the same stored matcher, and every call returns.
C8_CacheRaceSafe ==
    /\ [](CompiledOnce /\ UnderLock /\ SameMatcher)
    /\ AppendOnly
    /\ EveryCallReturns

\* all callers asked for the same key and came back with the one matcher
C8_Witness ==
    /\ \A p \in Callers : pc[p] = "idle" /\ key[p] = <<"7">> /\ ret[p] = Compile(<<"7">>, 1)
    /\ compiled[<<"7">>] = 1
    /\ Cardinality(DOMAIN rMap) >= 2

====
